---- MODULE Spec2Model ----
(***************************************************************************)
(* Model of streamlit_app.py: extract_prompts (XML -> de-duplicated,       *)
(* name-sorted prompt records) and the per-file loop of main.              *)
(*                                                                         *)
(* Encoding.  A text value (element.text, a dict key, a record field) is   *)
(* the sequence of its code points; Python's None is the empty sequence,   *)
(* because ElementTree never yields '' for .text (an empty element has     *)
(* .text None).  An XML document is a sequence of tokens (start tag, text, *)
(* end tag); the parsed tree is the sequence of its elements in document   *)
(* order, each with its depth, so that the parent of an element is the     *)
(* nearest earlier element one level up.                                   *)
(***************************************************************************)
EXTENDS Integers, Sequences, FiniteSets, TLC

VARIABLES
    uploaded_files,       \* main: the uploaded files, [name, content]
    fileIdx,              \* main: position of the for loop of line 91
    pc,                   \* control point
    root,                 \* extract_prompts: the parsed tree
    annList,              \* extract_prompts: root.findall('.//announcements')
    annIdx,               \* position of the for loop of line 15
    announcement_prompts, \* extract_prompts: id text -> [enabled]
    modList,              \* extract_prompts: root.findall('.//modules/*')
    modIdx,               \* position of the for loop of line 26
    prompts_list,         \* extract_prompts: located records, scan order
    sorted_list,          \* extract_prompts: sorted(prompts_list, key=Name)
    sortIdx,              \* position of the for loop of line 57
    unique_prompts,       \* extract_prompts: the returned list
    seen_ids,             \* extract_prompts: IDs already kept
    exc,                  \* the exception in flight ("" when none)
    all_results,          \* main: one data frame per file with prompts
    errors,               \* main: st.error calls, [file, exc]
    warnings,             \* main: st.warning calls (files with no prompt)
    combined_df           \* main: pd.concat(all_results)

vars == << uploaded_files, fileIdx, pc, root, annList, annIdx,
           announcement_prompts, modList, modIdx, prompts_list, sorted_list,
           sortIdx, unique_prompts, seen_ids, exc, all_results, errors,
           warnings, combined_df >>

-----------------------------------------------------------------------------
(* Text values *)

None == << >>

\* 'true', 'True', 'false' as code points
TxtTrue == << 116, 114, 117, 101 >>
TxtTrueCap == << 84, 114, 117, 101 >>
TxtFalse == << 102, 97, 108, 115, 101 >>

\* str.lower() on ASCII text (line 22)
Lower(s) == [i \in 1..Len(s) |-> IF s[i] \in 65..90 THEN s[i] + 32 ELSE s[i]]

\* Python's str < str: lexicographic on code points (the key order of line 57)
StrLess(a, b) ==
    \E k \in 1..Len(b) :
        /\ k - 1 <= Len(a)
        /\ \A j \in 1..(k - 1) : a[j] = b[j]
        /\ (Len(a) = k - 1 \/ a[k] < b[k])

-----------------------------------------------------------------------------
(* ET.fromstring (line 10): tokens -> elements, or a ParseError *)

Open(t) == [k |-> "open", tag |-> t, text |-> None]
Close(t) == [k |-> "close", tag |-> t, text |-> None]
Txt(s) == [k |-> "text", tag |-> "", text |-> s]

\* elems: elements so far; stack: open tags; fresh: the last element was just
\* opened, so that text belongs to it (.text) and not to a tail
RECURSIVE ParseFrom(_, _, _, _, _)
ParseFrom(tokens, i, elems, stack, fresh) ==
    IF i > Len(tokens)
    THEN [ok |-> stack = << >> /\ elems # << >>, elems |-> elems]
    ELSE LET t == tokens[i] IN
         CASE t.k = "open" ->
                IF stack = << >> /\ elems # << >>
                THEN [ok |-> FALSE, elems |-> << >>]
                ELSE ParseFrom(tokens, i + 1,
                         Append(elems, [depth |-> Len(stack) + 1,
                                        tag |-> t.tag, text |-> None]),
                         Append(stack, t.tag), TRUE)
           [] t.k = "text" ->
                IF stack = << >>
                THEN [ok |-> FALSE, elems |-> << >>]
                ELSE IF fresh
                     THEN ParseFrom(tokens, i + 1,
                              [elems EXCEPT ![Len(elems)].text = @ \o t.text],
                              stack, TRUE)
                     ELSE ParseFrom(tokens, i + 1, elems, stack, FALSE)
           [] OTHER ->
                IF stack = << >> \/ stack[Len(stack)] # t.tag
                THEN [ok |-> FALSE, elems |-> << >>]
                ELSE ParseFrom(tokens, i + 1, elems,
                               SubSeq(stack, 1, Len(stack) - 1), FALSE)

fromstring(xml_content) == ParseFrom(xml_content, 1, << >>, << >>, FALSE)

-----------------------------------------------------------------------------
(* Element.find / Element.findall on the element sequence E *)

\* the last element of the subtree of element i
RECURSIVE SubtreeEnd(_, _, _)
SubtreeEnd(E, i, j) ==
    IF j < Len(E) /\ E[j + 1].depth > E[i].depth
    THEN SubtreeEnd(E, i, j + 1)
    ELSE j

Indices(E) == [k \in 1..Len(E) |-> k]

MatchTag(tag, step) == step = "*" \/ tag = step

\* children of i with the tag, document order
ChildrenTag(E, i, step) ==
    LET last == SubtreeEnd(E, i, i) IN
    SelectSeq(Indices(E),
              LAMBDA k : /\ k > i
                         /\ k <= last
                         /\ E[k].depth = E[i].depth + 1
                         /\ MatchTag(E[k].tag, step))

\* proper descendants of i with the tag, document order ('.//tag')
DescendantsTag(E, i, step) ==
    LET last == SubtreeEnd(E, i, i) IN
    SelectSeq(Indices(E),
              LAMBDA k : k > i /\ k <= last /\ MatchTag(E[k].tag, step))

\* elem.find(tag): the first child with the tag, 0 for None
find(E, i, tag) ==
    LET c == ChildrenTag(E, i, tag) IN
    IF c = << >> THEN 0 ELSE c[1]

\* one '/step' of a path applied to a list of context elements
RECURSIVE ChildStep(_, _, _)
ChildStep(E, ctxs, step) ==
    IF ctxs = << >>
    THEN << >>
    ELSE ChildrenTag(E, Head(ctxs), step) \o ChildStep(E, Tail(ctxs), step)

RECURSIVE ChildSteps(_, _, _)
ChildSteps(E, ctxs, steps) ==
    IF steps = << >>
    THEN ctxs
    ELSE ChildSteps(E, ChildStep(E, ctxs, Head(steps)), Tail(steps))

\* elem.findall('.//s1/s2/.../sn'), path = << s1, ..., sn >>
findall(E, i, path) ==
    ChildSteps(E, DescendantsTag(E, i, Head(path)), Tail(path))

-----------------------------------------------------------------------------
(* extract_prompts, lines 8-62 *)

EmptyMap == [x \in {} |-> [enabled |-> FALSE]]

\* mutant: the first flag stored for a key is kept
Store_FirstWins(map, key, flag) == map @@ (key :> [enabled |-> flag])

\* announcement_prompts[key] = {'enabled': flag} (lines 21-23): overwrites
Store(map, key, flag) == (key :> [enabled |-> flag]) @@ map

\* enabled.text.lower() == 'true' (line 22), for a text that is not None
EnabledFlag(text) == Lower(text) = TxtTrue

\* One iteration of the loop of lines 15-23 on announcement block a.
\* raised: enabled.text is None, so .lower() raises AttributeError.
AnnouncementStep(E, map, a) ==
    LET enabled == find(E, a, "enabled")
        prompt == find(E, a, "prompt")
        prompt_id == IF prompt # 0 /\ enabled # 0 THEN find(E, prompt, "id") ELSE 0
    IN  IF prompt_id = 0
        THEN [raised |-> FALSE, map |-> map]
        ELSE IF E[enabled].text = None
             THEN [raised |-> TRUE, map |-> map]
             ELSE [raised |-> FALSE,
                   map |-> Store(map, E[prompt_id].text, EnabledFlag(E[enabled].text))]

\* mutant: the announcements/prompt shape is not searched
prompt_locations_NoAnnouncements ==
    << << "filePrompt", "promptData", "prompt" >>,
       << "prompt", "filePrompt", "promptData", "prompt" >>,
       << "compoundPrompt", "filePrompt", "promptData", "prompt" >>,
       << "promptData", "prompt" >> >>

\* lines 32-38
prompt_locations ==
    << << "filePrompt", "promptData", "prompt" >>,
       << "announcements", "prompt" >>,
       << "prompt", "filePrompt", "promptData", "prompt" >>,
       << "compoundPrompt", "filePrompt", "promptData", "prompt" >>,
       << "promptData", "prompt" >> >>

\* line 44: the element has an id child and a name child
Usable(E, e) == find(E, e, "id") # 0 /\ find(E, e, "name") # 0

\* mutant: the presence of the entry is taken for its flag
Classify_EntryIsEnabled(map, id) ==
    IF id \in DOMAIN map THEN "True" ELSE "N/A"

\* mutant: a prompt without entry defaults to False
Classify_DefaultFalse(map, id) ==
    IF id \in DOMAIN map
    THEN IF map[id].enabled THEN "True" ELSE "False"
    ELSE "False"

\* line 46: announcement_prompts.get(id, {}).get('enabled', 'N/A'); the Python
\* value True / False / 'N/A' is written "True" / "False" / "N/A"
Classify(map, id) ==
    IF id \in DOMAIN map
    THEN IF map[id].enabled THEN "True" ELSE "False"
    ELSE "N/A"

\* lines 47-52
PromptRecord(E, map, module_name, e) ==
    [ID |-> E[find(E, e, "id")].text,
     Name |-> E[find(E, e, "name")].text,
     Module |-> module_name,
     Enabled |-> Classify(map, E[find(E, e, "id")].text)]

\* lines 41-52 for one location: the records of the usable elements it finds
RECURSIVE ElemRecords(_, _, _, _)
ElemRecords(E, map, module_name, elems) ==
    IF elems = << >>
    THEN << >>
    ELSE (IF Usable(E, Head(elems))
          THEN << PromptRecord(E, map, module_name, Head(elems)) >>
          ELSE << >>)
         \o ElemRecords(E, map, module_name, Tail(elems))

\* lines 40-52: the locations in their listed order
RECURSIVE LocationRecords(_, _, _, _, _)
LocationRecords(E, map, m, module_name, locations) ==
    IF locations = << >>
    THEN << >>
    ELSE ElemRecords(E, map, module_name, findall(E, m, Head(locations)))
         \o LocationRecords(E, map, m, module_name, Tail(locations))

\* mutant: a module without moduleName is scanned like the others
ModuleRecords_NoNameCheck(E, map, m) ==
    LET module_name == find(E, m, "moduleName") IN
    LocationRecords(E, map, m,
                    IF module_name = 0 THEN None ELSE E[module_name].text,
                    prompt_locations)

\* One iteration of the loop of lines 26-52 on module m: what it appends
ModuleRecords(E, map, m) ==
    LET module_name == find(E, m, "moduleName") IN
    IF module_name = 0
    THEN << >>
    ELSE LocationRecords(E, map, m, E[module_name].text, prompt_locations)

\* sorted() compares keys with <, and each element of a list of two or more
\* takes part in a comparison: a None key raises TypeError (line 57)
SortRaises(list) ==
    Len(list) >= 2 /\ \E i \in 1..Len(list) : list[i].Name = None

\* mutant: x goes before the first element whose key is not less (unstable)
InsertByName_BeforeEqual(list, x) ==
    LET notless == {i \in 1..Len(list) : ~StrLess(list[i].Name, x.Name)}
        at == IF notless = {} THEN Len(list) + 1
              ELSE CHOOSE i \in notless : \A j \in notless : i <= j
    IN  SubSeq(list, 1, at - 1) \o << x >> \o SubSeq(list, at, Len(list))

\* stable insertion: x goes before the first element whose key is greater
InsertByName(list, x) ==
    LET greater == {i \in 1..Len(list) : StrLess(x.Name, list[i].Name)}
        at == IF greater = {} THEN Len(list) + 1
              ELSE CHOOSE i \in greater : \A j \in greater : i <= j
    IN  SubSeq(list, 1, at - 1) \o << x >> \o SubSeq(list, at, Len(list))

\* mutant: the list is not sorted before the duplicates are removed
SortedByName_ScanOrder(list) == list

\* sorted(prompts_list, key=lambda x: x['Name']) (line 57): stable
RECURSIVE SortedByName(_)
SortedByName(list) ==
    IF list = << >>
    THEN << >>
    ELSE InsertByName(SortedByName(SubSeq(list, 1, Len(list) - 1)),
                      list[Len(list)])

\* mutant: the ID is not looked up in seen_ids
NotSeen_Always(seen, prompt) == TRUE

\* line 58
NotSeen(seen, prompt) == prompt.ID \notin seen

\* extract_prompts as a function: the exception it raises ("" when it returns)
\* and the list it returns
RECURSIVE ScanAnnouncements(_, _, _)
ScanAnnouncements(E, map, blocks) ==
    IF blocks = << >>
    THEN [raised |-> FALSE, map |-> map]
    ELSE LET r == AnnouncementStep(E, map, Head(blocks)) IN
         IF r.raised THEN r ELSE ScanAnnouncements(E, r.map, Tail(blocks))

RECURSIVE ScanModules(_, _, _)
ScanModules(E, map, modules) ==
    IF modules = << >>
    THEN << >>
    ELSE ModuleRecords(E, map, Head(modules)) \o ScanModules(E, map, Tail(modules))

RECURSIVE Dedup(_, _, _)
Dedup(list, unique, seen) ==
    IF list = << >>
    THEN unique
    ELSE IF NotSeen(seen, Head(list))
         THEN Dedup(Tail(list), Append(unique, Head(list)), seen \cup {Head(list).ID})
         ELSE Dedup(Tail(list), unique, seen)

extract_prompts(xml_content) ==
    LET parsed == fromstring(xml_content) IN
    IF ~parsed.ok
    THEN [exc |-> "ParseError", result |-> << >>]
    ELSE LET E == parsed.elems
             anns == ScanAnnouncements(E, EmptyMap, findall(E, 1, << "announcements" >>))
         IN  IF anns.raised
             THEN [exc |-> "AttributeError", result |-> << >>]
             ELSE LET list == ScanModules(E, anns.map, findall(E, 1, << "modules", "*" >>))
                  IN  IF SortRaises(list)
                      THEN [exc |-> "TypeError", result |-> << >>]
                      ELSE [exc |-> "", result |-> Dedup(SortedByName(list), << >>, {})]

-----------------------------------------------------------------------------
(* main, lines 87-143 *)

\* line 113: the Enabled column as displayed
DisplayEnabled(v) ==
    CASE v = "True" -> "U+2705"
      [] v = "False" -> "U+274C"
      [] OTHER -> "U+2014"

\* lines 103-113: the data frame of one file's prompts
DataFrame(prompts, name) ==
    [i \in 1..Len(prompts) |->
        [ID |-> prompts[i].ID, Name |-> prompts[i].Name,
         Module |-> prompts[i].Module,
         Enabled |-> DisplayEnabled(prompts[i].Enabled),
         SourceFile |-> name]]

\* pd.concat(all_results) (line 143)
RECURSIVE Concat(_)
Concat(frames) ==
    IF frames = << >> THEN << >> ELSE Head(frames) \o Concat(Tail(frames))

-----------------------------------------------------------------------------
(* Control points: "main" line 91, "ann" line 15, "mod" line 26, "sort" line  *)
(* 57 (the call of sorted), "dedup" lines 57-60, "return" line 62, "except"   *)
(* line 135, "done" after line 143.                                          *)

\* where extract_prompts stands once the loops of lines 15 and 26 are at
\* positions a and m
ScanPc(a, anns, m, modules) ==
    IF a <= Len(anns) THEN "ann"
    ELSE IF m <= Len(modules) THEN "mod"
    ELSE "sort"

DedupPc(i, list) == IF i <= Len(list) THEN "dedup" ELSE "return"

\* the locals of extract_prompts, gone when the call ends
ResetLocals ==
    /\ root' = << >>
    /\ annList' = << >>
    /\ annIdx' = 0
    /\ announcement_prompts' = EmptyMap
    /\ modList' = << >>
    /\ modIdx' = 0
    /\ prompts_list' = << >>
    /\ sorted_list' = << >>
    /\ sortIdx' = 0
    /\ unique_prompts' = << >>
    /\ seen_ids' = {}
    /\ exc' = ""

\* lines 91-99 and 10-14: the next file is read and parsed
StartFile ==
    /\ pc = "main"
    /\ fileIdx <= Len(uploaded_files)
    /\ LET parsed == fromstring(uploaded_files[fileIdx].content)
           anns == findall(parsed.elems, 1, << "announcements" >>)
           modules == findall(parsed.elems, 1, << "modules", "*" >>)
       IN  IF parsed.ok
           THEN /\ root' = parsed.elems
                /\ annList' = anns
                /\ annIdx' = 1
                /\ modList' = modules
                /\ modIdx' = 1
                /\ pc' = ScanPc(1, anns, 1, modules)
                /\ exc' = ""
           ELSE /\ pc' = "except"
                /\ exc' = "ParseError"
                /\ UNCHANGED << root, annList, annIdx, modList, modIdx >>
    /\ UNCHANGED << uploaded_files, fileIdx, announcement_prompts, prompts_list,
                    sorted_list, sortIdx, unique_prompts, seen_ids, all_results,
                    errors, warnings, combined_df >>

\* lines 15-23, one announcement block
ScanAnnouncement ==
    /\ pc = "ann"
    /\ LET r == AnnouncementStep(root, announcement_prompts, annList[annIdx]) IN
       IF r.raised
       THEN /\ pc' = "except"
            /\ exc' = "AttributeError"
            /\ UNCHANGED << announcement_prompts, annIdx >>
       ELSE /\ announcement_prompts' = r.map
            /\ annIdx' = annIdx + 1
            /\ pc' = ScanPc(annIdx + 1, annList, modIdx, modList)
            /\ UNCHANGED exc
    /\ UNCHANGED << uploaded_files, fileIdx, root, annList, modList, modIdx,
                    prompts_list, sorted_list, sortIdx, unique_prompts, seen_ids,
                    all_results, errors, warnings, combined_df >>

\* lines 26-52, one module
ScanModule ==
    /\ pc = "mod"
    /\ prompts_list' = prompts_list
                       \o ModuleRecords(root, announcement_prompts, modList[modIdx])
    /\ modIdx' = modIdx + 1
    /\ pc' = ScanPc(annIdx, annList, modIdx + 1, modList)
    /\ UNCHANGED << uploaded_files, fileIdx, root, annList, annIdx,
                    announcement_prompts, modList, sorted_list, sortIdx,
                    unique_prompts, seen_ids, exc, all_results, errors, warnings,
                    combined_df >>

\* lines 55-57: the sorted copy the loop iterates over
SortPrompts ==
    /\ pc = "sort"
    /\ IF SortRaises(prompts_list)
       THEN /\ pc' = "except"
            /\ exc' = "TypeError"
            /\ UNCHANGED << sorted_list, sortIdx >>
       ELSE /\ sorted_list' = SortedByName(prompts_list)
            /\ sortIdx' = 1
            /\ pc' = DedupPc(1, SortedByName(prompts_list))
            /\ UNCHANGED exc
    /\ UNCHANGED << uploaded_files, fileIdx, root, annList, annIdx,
                    announcement_prompts, modList, modIdx, prompts_list,
                    unique_prompts, seen_ids, all_results, errors, warnings,
                    combined_df >>

\* lines 57-60, one record of the sorted list
DedupStep ==
    /\ pc = "dedup"
    /\ LET prompt == sorted_list[sortIdx] IN
       IF NotSeen(seen_ids, prompt)
       THEN /\ unique_prompts' = Append(unique_prompts, prompt)
            /\ seen_ids' = seen_ids \cup {prompt.ID}
       ELSE UNCHANGED << unique_prompts, seen_ids >>
    /\ sortIdx' = sortIdx + 1
    /\ pc' = DedupPc(sortIdx + 1, sorted_list)
    /\ UNCHANGED << uploaded_files, fileIdx, root, annList, annIdx,
                    announcement_prompts, modList, modIdx, prompts_list,
                    sorted_list, exc, all_results, errors, warnings, combined_df >>

\* lines 62 and 99-133: the list is returned and main records it
ReturnToMain ==
    /\ pc = "return"
    /\ IF unique_prompts # << >>
       THEN /\ all_results' = Append(all_results,
                                  DataFrame(unique_prompts, uploaded_files[fileIdx].name))
            /\ UNCHANGED warnings
       ELSE /\ warnings' = Append(warnings, uploaded_files[fileIdx].name)
            /\ UNCHANGED all_results
    /\ fileIdx' = fileIdx + 1
    /\ pc' = "main"
    /\ ResetLocals
    /\ UNCHANGED << uploaded_files, errors, combined_df >>

\* mutant: the exception ends the loop over the files
HandleException_Abort ==
    /\ pc = "except"
    /\ errors' = Append(errors, [file |-> uploaded_files[fileIdx].name, exc |-> exc])
    /\ fileIdx' = Len(uploaded_files) + 1
    /\ pc' = "main"
    /\ ResetLocals
    /\ UNCHANGED << uploaded_files, all_results, warnings, combined_df >>

\* lines 135-136: any exception of the file is reported, the loop goes on
HandleException ==
    /\ pc = "except"
    /\ errors' = Append(errors, [file |-> uploaded_files[fileIdx].name, exc |-> exc])
    /\ fileIdx' = fileIdx + 1
    /\ pc' = "main"
    /\ ResetLocals
    /\ UNCHANGED << uploaded_files, all_results, warnings, combined_df >>

\* lines 139-143: after the last file
CombinedAnalysis ==
    /\ pc = "main"
    /\ fileIdx > Len(uploaded_files)
    /\ combined_df' = IF all_results # << >> THEN Concat(all_results) ELSE combined_df
    /\ pc' = "done"
    /\ UNCHANGED << uploaded_files, fileIdx, root, annList, annIdx,
                    announcement_prompts, modList, modIdx, prompts_list,
                    sorted_list, sortIdx, unique_prompts, seen_ids, exc,
                    all_results, errors, warnings >>

Next ==
    \/ StartFile
    \/ ScanAnnouncement
    \/ ScanModule
    \/ SortPrompts
    \/ DedupStep
    \/ ReturnToMain
    \/ HandleException
    \/ CombinedAnalysis

-----------------------------------------------------------------------------
(* The uploaded documents.  A document is written from a description: blocks  *)
(* outside the modules, then the modules, each with its connection            *)
(* references, its name, its id, its prompts and its nested modules, in the   *)
(* layout of a Five9 IVR script.                                             *)

MaxPrompts == 3        \* prompts of a document of OrderDocs
MaxAnnouncements == 2  \* announcement blocks after the modules, AnnouncementDocs
MaxFiles == 3          \* files of one upload

\* '101', '202', '303'
Id1 == << 49, 48, 49 >>
Id2 == << 50, 48, 50 >>
Id3 == << 51, 48, 51 >>
\* 'A', 'B'
NameA == << 65 >>
NameB == << 66 >>
\* 'Welcome', 'Menu', 'M1', 'M2'
Welcome == << 87, 101, 108, 99, 111, 109, 101 >>
Menu == << 77, 101, 110, 117 >>
M1 == << 77, 49 >>
M2 == << 77, 50 >>

\* an optional child: absent, or present with a text (None when empty)
Absent == << >>
Present(text) == << text >>

Leaf(tag, text) ==
    << Open(tag) >> \o (IF text = None THEN << >> ELSE << Txt(text) >>) \o << Close(tag) >>

OptLeaf(tag, opt) == IF opt = Absent THEN << >> ELSE Leaf(tag, opt[1])

RECURSIVE Wrap(_, _)
Wrap(tags, inner) ==
    IF tags = << >>
    THEN inner
    ELSE << Open(Head(tags)) >> \o Wrap(Tail(tags), inner) \o << Close(Head(tags)) >>

PromptXml(p) ==
    << Open("prompt") >> \o OptLeaf("id", p.id) \o OptLeaf("name", p.name)
    \o << Close("prompt") >>

\* the elements between a module's data element and the prompt
KindWrap(kind) ==
    CASE kind = "file" -> << "filePrompt", "promptData" >>
      [] kind = "nested" -> << "prompt", "filePrompt", "promptData" >>
      [] kind = "compound" -> << "compoundPrompt", "filePrompt", "promptData" >>
      [] kind = "data" -> << "promptData" >>
      [] OTHER -> << "ttsPrompt" >>

Kinds == {"file", "ann", "nested", "compound", "data", "tts"}

\* a prompt in its place; kind "ann" is an announcement block with its enabled
\* child, kind "annEmpty" one without a prompt
PlacedPrompt(p) ==
    CASE p.kind = "ann" ->
            << Open("announcements") >> \o OptLeaf("enabled", p.enabled)
            \o PromptXml(p) \o << Close("announcements") >>
      [] p.kind = "annEmpty" ->
            << Open("announcements") >> \o OptLeaf("enabled", p.enabled)
            \o << Close("announcements") >>
      [] OTHER -> Wrap(KindWrap(p.kind), PromptXml(p))

RECURSIVE PromptsXml(_)
PromptsXml(ps) ==
    IF ps = << >> THEN << >> ELSE PlacedPrompt(Head(ps)) \o PromptsXml(Tail(ps))

RECURSIVE RefsXml(_)
RefsXml(refs) ==
    IF refs = << >>
    THEN << >>
    ELSE Leaf(Head(refs).tag, Head(refs).text) \o RefsXml(Tail(refs))

RECURSIVE ModulesXml(_)
ModuleXml(m) ==
    << Open("play") >> \o RefsXml(m.refs) \o OptLeaf("moduleName", m.name)
    \o Leaf("moduleId", m.id)
    \o Wrap(<< "data" >>,
            PromptsXml(m.prompts)
            \o (IF m.sub = << >> THEN << >> ELSE Wrap(<< "modules" >>, ModulesXml(m.sub))))
    \o << Close("play") >>

ModulesXml(ms) ==
    IF ms = << >> THEN << >> ELSE ModuleXml(Head(ms)) \o ModulesXml(Tail(ms))

DocXml(d) ==
    Wrap(<< "ivrScript" >>,
         PromptsXml(d.top) \o Wrap(<< "modules" >>, ModulesXml(d.mods))
         \o PromptsXml(d.bottom))

Prompt(kind, id, name, enabled) ==
    [kind |-> kind, id |-> id, name |-> name, enabled |-> enabled]

Module(refs, name, id, prompts, sub) ==
    [refs |-> refs, name |-> name, id |-> id, prompts |-> prompts, sub |-> sub]

Ref(tag, text) == [tag |-> tag, text |-> text]

\* the connection references of a module with id M1: none, itself only,
\* another module, itself and another module
RefOptions ==
    { << >>,
      << Ref("singleDescendant", M1) >>,
      << Ref("singleDescendant", M2) >>,
      << Ref("ascendants", M1), Ref("exceptionalDescendant", M2) >> }

\* Two modules with one prompt each: every nesting shape, with and without id
\* and name children, empty id and name, named and unnamed modules.
ShapeDocs ==
    { DocXml([top |-> << >>, bottom |-> << >>,
              mods |-> << Module(<< Ref("singleDescendant", M2) >>, n1, M1, << p1 >>, << >>),
                          Module(<< Ref("ascendants", M1) >>, Present(Menu), M2, << p2 >>, << >>) >>]) :
        n1 \in {Absent, Present(None), Present(Welcome)},
        p1 \in { Prompt(k, i, n, Present(TxtTrue)) :
                   k \in Kinds,
                   i \in {Absent, Present(None), Present(Id1), Present(Id2)},
                   n \in {Absent, Present(None), Present(NameA), Present(NameB)} },
        p2 \in { Prompt(k, Present(i), n, Present(TxtFalse)) :
                   k \in {"file", "ann"}, i \in {Id1, Id2}, n \in {Present(NameA)} } }

\* Up to MaxPrompts prompts spread over two modules: names and ids repeat.
OrderPrompts ==
    { [mod |-> 1, id |-> Id1, name |-> NameA],
      [mod |-> 1, id |-> Id1, name |-> NameB],
      [mod |-> 1, id |-> Id2, name |-> NameA],
      [mod |-> 1, id |-> Id3, name |-> NameA],
      [mod |-> 2, id |-> Id1, name |-> NameA],
      [mod |-> 2, id |-> Id2, name |-> NameB] }

PromptsOf(seq, k) ==
    LET mine == SelectSeq(seq, LAMBDA x : x.mod = k) IN
    [i \in 1..Len(mine) |->
        Prompt("data", Present(mine[i].id), Present(mine[i].name), Absent)]

OrderDocs ==
    { DocXml([top |-> << >>, bottom |-> << >>,
              mods |-> << Module(<< >>, Present(Welcome), M1, PromptsOf(seq, 1), << >>),
                          Module(<< >>, Present(Menu), M2, PromptsOf(seq, 2), << >>) >>]) :
        seq \in UNION { [1..n -> OrderPrompts] : n \in 1..MaxPrompts } }

\* One disconnected module citing prompt 101, followed by up to
\* MaxAnnouncements announcement blocks outside the modules.
Blocks ==
    { Prompt("ann", Present(i), Absent, Present(e)) :
        i \in {Id1, Id2}, e \in {TxtTrue, TxtFalse} }
    \cup { Prompt("ann", Present(Id1), Absent, Absent),
           Prompt("ann", Present(Id1), Absent, Present(None)),
           Prompt("ann", Present(Id1), Absent, Present(TxtTrueCap)),
           Prompt("ann", Absent, Absent, Present(TxtTrue)),
           Prompt("annEmpty", Absent, Absent, Present(TxtTrue)) }

CitedPrompts ==
    { Prompt("data", Present(Id1), Present(NameA), Absent),
      Prompt("ann", Present(Id1), Present(NameA), Present(TxtFalse)) }

AnnouncementDocs ==
    { DocXml([top |-> << >>, bottom |-> blocks,
              mods |-> << Module(<< Ref("singleDescendant", M1) >>, Present(Welcome),
                                 M1, << p >>, << >>) >>]) :
        p \in CitedPrompts,
        blocks \in UNION { [1..n -> Blocks] : n \in 0..MaxAnnouncements } }

\* The same module with each kind of connection references, with and without
\* an announcement block before the modules.
ConnectivityDocs ==
    { DocXml([top |-> blocks, bottom |-> << >>,
              mods |-> << Module(refs, Present(Welcome), M1, << p >>, << >>) >>]) :
        refs \in RefOptions,
        p \in CitedPrompts,
        blocks \in {<< >>} \cup {<< b >> : b \in Blocks} }

\* A module nested in the modules element of another module.
NestedDocs ==
    { DocXml([top |-> << >>, bottom |-> << >>,
              mods |-> << Module(<< >>, n1, M1, outer,
                                 << Module(<< >>, n2, M2,
                                           << Prompt(k, Present(Id1), Present(NameA),
                                                     Present(TxtTrue)) >>,
                                           << >>) >>) >>]) :
        n1 \in {Absent, Present(Welcome)},
        n2 \in {Absent, Present(Menu)},
        k \in Kinds,
        outer \in { << >>, << Prompt("data", Present(Id1), Present(NameB), Absent) >> } }

\* An unnamed module with a usable prompt beside a named module with a prompt
\* that lacks its id, its name or both, and a usable one.
SkipDocs ==
    { DocXml([top |-> << >>, bottom |-> << >>, mods |-> mods]) :
        mods \in UNION {
            { << Module(<< >>, Absent, M1,
                        << Prompt(k, Present(Id1), Present(NameA), Present(TxtTrue)) >>, << >>),
                 Module(<< >>, Present(Menu), M2,
                        << Prompt(k, i, n, Present(TxtTrue)),
                           Prompt("data", Present(Id2), Present(NameB), Absent) >>, << >>) >>,
              << Module(<< >>, Present(Menu), M2,
                        << Prompt("data", Present(Id2), Present(NameB), Absent),
                           Prompt(k, i, n, Present(TxtTrue)) >>, << >>),
                 Module(<< >>, Absent, M1,
                        << Prompt(k, Present(Id1), Present(NameA), Present(TxtTrue)) >>, << >>) >> } :
            k \in Kinds \ {"tts"},
            i \in {Absent, Present(Id1)},
            n \in {Absent, Present(NameA)} } }

\* Not well formed: the last end tag is missing, or closes another element.
MalformedDocs ==
    { SubSeq(x, 1, Len(x) - 1) : x \in NestedDocs }
    \cup { SubSeq(x, 1, Len(x) - 1) \o << Close("modules") >> : x \in NestedDocs }

Docs ==
    ShapeDocs \cup OrderDocs \cup AnnouncementDocs \cup ConnectivityDocs
    \cup NestedDocs \cup SkipDocs \cup MalformedDocs

\* The documents of an upload of several files: with prompts, without any,
\* not well formed, with an empty enabled element.
BatchDocs ==
    LET doc(ps, blocks) ==
            DocXml([top |-> << >>, bottom |-> blocks,
                    mods |-> << Module(<< >>, Present(Welcome), M1, ps, << >>) >>])
        good == doc(<< Prompt("data", Present(Id1), Present(NameA), Absent) >>, << >>)
    IN  { doc(<< Prompt("file", Present(Id2), Present(NameB), Absent) >>,
              << Prompt("ann", Present(Id2), Absent, Present(TxtTrue)) >>),
          doc(<< >>, << >>),
          SubSeq(good, 1, Len(good) - 1),
          doc(<< Prompt("data", Present(Id1), Present(NameA), Absent) >>,
              << Prompt("ann", Present(Id1), Absent, Present(None)) >>) }

Uploads ==
    { << d >> : d \in Docs }
    \cup UNION { [1..n -> BatchDocs] : n \in 2..MaxFiles }

Init ==
    /\ uploaded_files \in
         { [i \in 1..Len(u) |-> [name |-> i, content |-> u[i]]] : u \in Uploads }
    /\ fileIdx = 1
    /\ pc = "main"
    /\ root = << >>
    /\ annList = << >>
    /\ annIdx = 0
    /\ announcement_prompts = EmptyMap
    /\ modList = << >>
    /\ modIdx = 0
    /\ prompts_list = << >>
    /\ sorted_list = << >>
    /\ sortIdx = 0
    /\ unique_prompts = << >>
    /\ seen_ids = {}
    /\ exc = ""
    /\ all_results = << >>
    /\ errors = << >>
    /\ warnings = << >>
    /\ combined_df = << >>

Spec == Init /\ [][Next]_vars

-----------------------------------------------------------------------------
(* The document as the specification describes it, read off the tree by      *)
(* parent links instead of path searches.                                    *)

Parent(E, i) ==
    IF E[i].depth = 1
    THEN 0
    ELSE CHOOSE j \in 1..(i - 1) :
            /\ E[j].depth = E[i].depth - 1
            /\ \A k \in (j + 1)..(i - 1) : E[k].depth # E[i].depth - 1

RECURSIVE AncestorAt(_, _, _)
AncestorAt(E, i, n) ==
    IF n = 0 \/ i = 0 THEN i ELSE AncestorAt(E, Parent(E, i), n - 1)

IsAncestor(E, a, i) ==
    a < i /\ \A k \in (a + 1)..i : E[k].depth > E[a].depth

KidsOf(E, i, tag) == {k \in (i + 1)..Len(E) : E[k].tag = tag /\ Parent(E, k) = i}

HasChild(E, i, tag) == KidsOf(E, i, tag) # {}

FirstChild(E, i, tag) ==
    CHOOSE k \in KidsOf(E, i, tag) : \A j \in KidsOf(E, i, tag) : k <= j

ChildText(E, i, tag) == E[FirstChild(E, i, tag)].text

\* a flow module: a child of a modules element below the root
IsModuleElem(E, m) ==
    LET p == Parent(E, m) IN p > 1 /\ E[p].tag = "modules"

NamedModules(E) ==
    {m \in 1..Len(E) : IsModuleElem(E, m) /\ HasChild(E, m, "moduleName")}

\* the five nesting shapes, as the elements above the prompt, outermost first
FiveShapes ==
    << << "filePrompt", "promptData" >>,
       << "announcements" >>,
       << "prompt", "filePrompt", "promptData" >>,
       << "compoundPrompt", "filePrompt", "promptData" >>,
       << "promptData" >> >>

\* prompt element e lies under module m in the given shape
UnderShape(E, m, e, shape) ==
    /\ E[e].tag = "prompt"
    /\ \A n \in 1..Len(shape) :
          /\ AncestorAt(E, e, n) # 0
          /\ E[AncestorAt(E, e, n)].tag = shape[Len(shape) - n + 1]
    /\ IsAncestor(E, m, AncestorAt(E, e, Len(shape)))

UsablePrompt(E, e) == HasChild(E, e, "id") /\ HasChild(E, e, "name")

\* (module, shape, prompt element) of every citation the locator must report
Citations(E) ==
    LET usable == {e \in 1..Len(E) : E[e].tag = "prompt" /\ UsablePrompt(E, e)} IN
    {c \in NamedModules(E) \X (1..Len(FiveShapes)) \X usable :
        UnderShape(E, c[1], c[3], FiveShapes[c[2]])}

\* announcement blocks holding an enabled flag and a prompt with an id
StatusBlocks(E) ==
    {a \in 1..Len(E) :
        /\ E[a].tag = "announcements"
        /\ HasChild(E, a, "enabled")
        /\ HasChild(E, a, "prompt")
        /\ HasChild(E, FirstChild(E, a, "prompt"), "id")}

BlockId(E, a) == ChildText(E, FirstChild(E, a, "prompt"), "id")

BlocksOf(E, id) == {a \in StatusBlocks(E) : BlockId(E, a) = id}

LastBlock(E, id) == CHOOSE a \in BlocksOf(E, id) : \A b \in BlocksOf(E, id) : b <= a

BlockFlag(E, a) == Lower(ChildText(E, a, "enabled")) = TxtTrue

\* a module is disconnected iff it has an outbound reference and every
\* outbound reference is its own id
OutboundRefs(E, m) ==
    KidsOf(E, m, "ascendants") \cup KidsOf(E, m, "exceptionalDescendant")
    \cup KidsOf(E, m, "singleDescendant")

Disconnected(E, m) ==
    /\ OutboundRefs(E, m) # {}
    /\ HasChild(E, m, "moduleId")
    /\ \A k \in OutboundRefs(E, m) : E[k].text = ChildText(E, m, "moduleId")

\* the modules whose name a record carries
Owners(E, r) == {m \in NamedModules(E) : ChildText(E, m, "moduleName") = r.Module}

\* type and status of an output record, read from its Enabled column; a record
\* without announcement setting is read as a play prompt in use
RecType(r) == IF r.Enabled = "N/A" THEN "Play" ELSE "Announcement"

RecStatus(r) ==
    CASE r.Enabled = "True" -> "Enabled"
      [] r.Enabled = "False" -> "Disabled"
      [] OTHER -> "InUse"

\* extract_prompts is about to return unique_prompts
Returning == pc = "return"

\* the scan of lines 15-52 is complete, nothing raised
Scanned == pc \in {"sort", "dedup", "return"}

OutputIds == {unique_prompts[i].ID : i \in 1..Len(unique_prompts)}

\* position at which a record was first located
FirstLocated(r) ==
    CHOOSE k \in 1..Len(prompts_list) :
        /\ prompts_list[k] = r
        /\ \A j \in 1..(k - 1) : prompts_list[j] # r

-----------------------------------------------------------------------------
(* Claims *)

\* C1 (dedup invariant): whenever extract_prompts returns, no two records of
\* the returned list have the same prompt ID, however often the ID was located.
C1_NoDuplicateIds ==
    pc \in {"dedup", "return"} =>
        \A i, j \in 1..Len(unique_prompts) :
            unique_prompts[i].ID = unique_prompts[j].ID => i = j

\* an ID located three times or more, in two modules and twice in one module
C1_Witness ==
    /\ Returning
    /\ \E i, j, k \in 1..Len(prompts_list) :
          /\ i < j /\ j < k
          /\ prompts_list[i].ID = prompts_list[j].ID
          /\ prompts_list[j].ID = prompts_list[k].ID
          /\ prompts_list[i].Module = prompts_list[j].Module
          /\ prompts_list[j].Module # prompts_list[k].Module

\* C2 (ordering invariant): the returned list is sorted by name ascending, and
\* records with equal names are in the order in which they were first located.
C2_SortedByNameStable ==
    Returning =>
        \A i, j \in 1..Len(unique_prompts) :
            i < j =>
                /\ ~StrLess(unique_prompts[j].Name, unique_prompts[i].Name)
                /\ unique_prompts[i].Name = unique_prompts[j].Name
                      => FirstLocated(unique_prompts[i]) < FirstLocated(unique_prompts[j])

\* two returned records with one name and a third with a greater name, located
\* before them
C2_Witness ==
    /\ Returning
    /\ \E i, j, k \in 1..Len(unique_prompts) :
          /\ i < j /\ j < k
          /\ unique_prompts[i].Name = unique_prompts[j].Name
          /\ StrLess(unique_prompts[j].Name, unique_prompts[k].Name)
          /\ FirstLocated(unique_prompts[k]) < FirstLocated(unique_prompts[i])

\* C9 (retained occurrence): the record kept for an ID is its occurrence with
\* the smallest name, and among those the one scanned first.
C9_RetainedOccurrence ==
    Returning =>
        \A u \in 1..Len(unique_prompts) :
            LET r == unique_prompts[u]
                occ == {k \in 1..Len(prompts_list) : prompts_list[k].ID = r.ID}
                least == {k \in occ :
                            \A j \in occ : ~StrLess(prompts_list[j].Name, prompts_list[k].Name)}
            IN  \E k \in least :
                    /\ \A j \in least : k <= j
                    /\ r = prompts_list[k]

\* an ID located first under one name and module, kept under a smaller name
\* from another module
C9_Witness ==
    /\ Returning
    /\ \E u \in 1..Len(unique_prompts) :
          \E k \in 1..Len(prompts_list) :
              /\ prompts_list[k].ID = unique_prompts[u].ID
              /\ k < FirstLocated(unique_prompts[u])
              /\ StrLess(unique_prompts[u].Name, prompts_list[k].Name)
              /\ prompts_list[k].Module # unique_prompts[u].Module

\* C6 (locator coverage): the IDs of the returned list are exactly the IDs of
\* the usable prompt elements lying under a named module in one of the five
\* shapes; without such an element the list is empty.
C6_LocatorCoverage ==
    Returning =>
        LET cited == Citations(root) IN
        /\ OutputIds = {ChildText(root, c[3], "id") : c \in cited}
        /\ cited = {} => unique_prompts = << >>

\* a returned ID beside a usable prompt element in no shape whose ID is not
\* returned
C6_Witness ==
    /\ Returning
    /\ unique_prompts # << >>
    /\ \E e \in 1..Len(root) :
          /\ root[e].tag = "prompt"
          /\ UsablePrompt(root, e)
          /\ ChildText(root, e, "id") \notin OutputIds

\* C7 (silent skip): a module without moduleName and a prompt without id or
\* name contribute no record, and every usable prompt under a named module
\* still contributes one record per shape that locates it.
C7_SilentSkip ==
    pc = "sort" =>
        LET cited == Citations(root) IN
        /\ Len(prompts_list) = Cardinality(cited)
        /\ \A k \in 1..Len(prompts_list) :
              \E c \in cited :
                  /\ prompts_list[k].ID = ChildText(root, c[3], "id")
                  /\ prompts_list[k].Name = ChildText(root, c[3], "name")
                  /\ prompts_list[k].Module = ChildText(root, c[1], "moduleName")

\* an unnamed module with a usable prompt in a shape, a named module with a
\* prompt lacking a child in a shape, and a record located all the same
C7_Witness ==
    /\ pc = "sort"
    /\ prompts_list # << >>
    /\ \E m \in 1..Len(root), e \in 1..Len(root) :
          /\ IsModuleElem(root, m)
          /\ ~HasChild(root, m, "moduleName")
          /\ UsablePrompt(root, e)
          /\ \E s \in 1..Len(FiveShapes) : UnderShape(root, m, e, FiveShapes[s])
    /\ \E m \in NamedModules(root), e \in 1..Len(root) :
          /\ ~UsablePrompt(root, e)
          /\ \E s \in 1..Len(FiveShapes) : UnderShape(root, m, e, FiveShapes[s])


\* C5 (announcement last-write-wins): once the announcement scan is complete,
\* the flag recorded for an ID is the flag of the last block, in document
\* order, that references the ID; the scan raises nothing over a conflict.
C5_LastWriteWins ==
    Scanned =>
        /\ DOMAIN announcement_prompts = {BlockId(root, a) : a \in StatusBlocks(root)}
        /\ \A id \in DOMAIN announcement_prompts :
              announcement_prompts[id].enabled = BlockFlag(root, LastBlock(root, id))

\* two blocks of one ID with different flags, the scan complete
C5_Witness ==
    /\ Scanned
    /\ \E a, b \in StatusBlocks(root) :
          /\ a < b
          /\ BlockId(root, a) = BlockId(root, b)
          /\ BlockFlag(root, a) # BlockFlag(root, b)

\* C4 (announcement classification): a returned record whose ID has an
\* announcement block anywhere in the document is an Announcement, Enabled iff
\* the flag of the ID is true and Disabled otherwise, whatever shape located
\* the prompt and whatever the connectivity of its module.
C4_AnnouncementClassification ==
    Returning =>
        \A u \in 1..Len(unique_prompts) :
            LET r == unique_prompts[u] IN
            BlocksOf(root, r.ID) # {} =>
                /\ r.ID \in DOMAIN announcement_prompts
                /\ RecType(r) = "Announcement"
                /\ RecStatus(r) = IF BlockFlag(root, LastBlock(root, r.ID))
                                  THEN "Enabled" ELSE "Disabled"

\* a Disabled record of a disconnected module, located by promptData/prompt,
\* whose only announcement block lies outside the modules
C4_Witness ==
    /\ Returning
    /\ \E u \in 1..Len(unique_prompts) :
          LET r == unique_prompts[u] IN
          /\ RecStatus(r) = "Disabled"
          /\ BlocksOf(root, r.ID) # {}
          /\ \A a \in BlocksOf(root, r.ID) : Parent(root, a) = 1
          /\ \E m \in Owners(root, r) : Disconnected(root, m)

RECURSIVE FramesAlone(_)
FramesAlone(n) ==
    IF n = 0
    THEN << >>
    ELSE LET r == extract_prompts(uploaded_files[n].content) IN
         FramesAlone(n - 1)
         \o (IF r.exc = "" /\ r.result # << >>
             THEN << DataFrame(r.result, uploaded_files[n].name) >>
             ELSE << >>)

Malformed(n) == ~fromstring(uploaded_files[n].content).ok

\* C8 (batch error isolation): after the last file, a file that is not well
\* formed has contributed no frame and one error, and every other file has
\* contributed exactly the records it yields when processed alone.
C8_BatchIsolation ==
    pc = "done" =>
        /\ all_results = FramesAlone(Len(uploaded_files))
        /\ \A n \in 1..Len(uploaded_files) :
              Malformed(n) =>
                  /\ \A f \in 1..Len(all_results) : all_results[f][1].SourceFile # n
                  /\ \E e \in 1..Len(errors) :
                        errors[e] = [file |-> n, exc |-> "ParseError"]

\* a file that is not well formed between two files with prompts, all three
\* processed
C8_Witness ==
    /\ pc = "done"
    /\ \E n \in 2..(Len(uploaded_files) - 1) :
          /\ Malformed(n)
          /\ \E f, g \in 1..Len(all_results) :
                /\ all_results[f][1].SourceFile = n - 1
                /\ all_results[g][1].SourceFile = n + 1

\* C10 (totality on well-formed input): the only exception extract_prompts
\* raises is the parse failure of a document that is not well formed.
C10_OnlyParseErrors ==
    pc = "except" => exc = "ParseError"

====
